---- MODULE Spec2Model ----
(***************************************************************************)
(* A model of the simplecss tokenizer (src/src/tokenizer.rs).              *)
(*                                                                         *)
(* The input text is a sequence of bytes, each byte written as a string    *)
(* of one character.  Positions are byte offsets counted from 0 as in the  *)
(* source, so the byte at offset p is text[p + 1].  A payload slice is the *)
(* pair <<lo, hi>> of offsets of the half-open region [lo, hi).            *)
(***************************************************************************)
EXTENDS Integers, Sequences, FiniteSets, TLC

(***************************************************************************)
(* Bounds of the checked input space.                                      *)
(***************************************************************************)
MaxLen == 3
MaxChunks == 3

(***************************************************************************)
(* Byte classes of the stream (crate::stream; its source file is not part  *)
(* of src/, the definitions follow the stream contract).                   *)
(***************************************************************************)
SpaceChars == {" ", "\t", "\n", "\r", "\f"}

IdentChars ==
    {"a","b","c","d","e","f","g","h","i","j","k","l","m","n","o","p","q","r",
     "s","t","u","v","w","x","y","z",
     "A","B","C","D","E","F","G","H","I","J","K","L","M","N","O","P","Q","R",
     "S","T","U","V","W","X","Y","Z",
     "0","1","2","3","4","5","6","7","8","9","-","_"}

is_space(c) == c \in SpaceChars

is_ident_char(c) == c \in IdentChars

(***************************************************************************)
(* Stream primitives.  A stream is the triple (text, end, pos); text and   *)
(* end never change, so the operators take them as parameters.             *)
(***************************************************************************)
at_end(end, pos) == pos >= end

\* The byte under the cursor, read without a check.  Reading at or past the
\* end of the buffer is an out-of-bounds index: the value "PANIC" stands for it.
curr_char_raw(text, pos) == IF pos < Len(text) THEN text[pos + 1] ELSE "PANIC"

RECURSIVE skip_spaces(_, _, _)
skip_spaces(text, end, pos) ==
    IF ~at_end(end, pos) /\ is_space(curr_char_raw(text, pos))
    THEN skip_spaces(text, end, pos + 1)
    ELSE pos

\* Number of bytes from pos to the first byte of the set cs, -1 when the
\* window ends first (the stream's end-of-stream error).
RECURSIVE length_to_either(_, _, _, _)
length_to_either(text, end, pos, cs) ==
    IF at_end(end, pos) THEN -1
    ELSE IF text[pos + 1] \in cs THEN 0
    ELSE LET n == length_to_either(text, end, pos + 1, cs)
         IN  IF n < 0 THEN -1 ELSE n + 1

length_to(text, end, pos, c) == length_to_either(text, end, pos, {c})

\* 1-based line of the byte offset pos: one more than the LFs before it.
RECURSIVE CountLF(_, _)
CountLF(text, pos) ==
    IF pos = 0 THEN 0
    ELSE CountLF(text, pos - 1) + (IF text[pos] = "\n" THEN 1 ELSE 0)

\* 1-based column of the byte offset pos: bytes since the last LF, plus one.
RECURSIVE ColOf(_, _)
ColOf(text, pos) ==
    IF pos = 0 \/ text[pos] = "\n" THEN 1 ELSE ColOf(text, pos - 1) + 1

gen_error_pos(text, pos) ==
    LET p == IF pos > Len(text) THEN Len(text) ELSE pos
    IN  [line |-> CountLF(text, p) + 1, col |-> ColOf(text, p)]

Slice(text, sl) == SubSeq(text, sl[1] + 1, sl[2])

(***************************************************************************)
(* Results of one call of parse_next: a token, an error, or a panic.       *)
(***************************************************************************)
NoSlice == <<0, 0>>

Tok(type) ==
    [kind |-> "Ok", type |-> type, comb |-> "", a |-> NoSlice, b |-> NoSlice,
     some |-> FALSE, at |-> 0]

Tok1(type, lo, hi) == [Tok(type) EXCEPT !.a = <<lo, hi>>]

TokComb(c) == [Tok("Combinator") EXCEPT !.comb = c]

TokPseudo(double, lo, hi) ==
    Tok1(IF double THEN "DoublePseudoClass" ELSE "PseudoClass", lo, hi)

TokPseudoArg(double, lo, hi, vlo, vhi) ==
    [TokPseudo(double, lo, hi) EXCEPT !.b = <<vlo, vhi>>, !.some = TRUE]

TokDecl(lo, hi, vlo, vhi) ==
    [Tok1("Declaration", lo, hi) EXCEPT !.b = <<vlo, vhi>>]

\* An error of the given kind raised with the cursor at byte offset pos.
Err(errkind, pos) == [Tok(errkind) EXCEPT !.kind = "Err", !.at = pos]

UnknownToken(pos) == Err("UnknownToken", pos)

\* The error the stream primitives curr_char, is_char_eq and length_to*
\* return at the end of the window; `?` hands it on unchanged.
EndOfStreamError(pos) == Err("UnexpectedEndOfStream", pos)

Panic(pos) == [Tok("Panic") EXCEPT !.kind = "Panic", !.at = pos]

NoResult == [Tok("None") EXCEPT !.kind = "None"]

(***************************************************************************)
(* The tokenizer: struct Tokenizer is the record                           *)
(*   [pos, state, after_selector, has_at_rule, at_start, nesting_stack]    *)
(* (pos is the cursor of its stream).  Every consume operator returns the  *)
(* record [t |-> the tokenizer afterwards, r |-> the result of the call].  *)
(***************************************************************************)
States == {"Rule", "Declaration", "DeclarationRule"}

Ret(t, r) == [t |-> t, r |-> r]

\* Tokenizer::new: the tokenizer over the window [start, end) of the text.
NewTokenizer(start) ==
    [pos |-> start, state |-> "Rule", after_selector |-> FALSE,
     has_at_rule |-> FALSE, at_start |-> TRUE, nesting_stack |-> <<>>]

\* The loop of consume_ident: the offset of the first byte at or after pos
\* that is not an identifier byte (or the end of the window).
RECURSIVE ident_end(_, _, _)
ident_end(text, end, pos) ==
    IF ~at_end(end, pos) /\ is_ident_char(curr_char_raw(text, pos))
    THEN ident_end(text, end, pos + 1)
    ELSE pos

\* consume_ident changed to accept an identifier of no bytes.
consume_ident_empty(text, end, start) ==
    [ok |-> TRUE, pos |-> ident_end(text, end, start)]

\* consume_ident: [ok, pos]; not ok when no byte was consumed (UnknownToken
\* at pos); otherwise the identifier is the region [start, pos).
consume_ident(text, end, start) ==
    LET e == ident_end(text, end, start)
    IN  [ok |-> e # start, pos |-> e]

\* The while loop of consume_comment, entered with the cursor after "/*".
\* r is "true" (Ok(true)), or "eos" (a stream primitive failed at pos).
RECURSIVE comment_loop(_, _, _)
comment_loop(text, end, pos) ==
    IF at_end(end, pos) THEN [r |-> "true", pos |-> pos]
    ELSE LET len == length_to(text, end, pos, "*")
         IN  IF len < 0 THEN [r |-> "eos", pos |-> pos]
             ELSE LET p2 == pos + len + 1
                  IN  IF at_end(end, p2) THEN [r |-> "eos", pos |-> p2]
                      ELSE IF text[p2 + 1] = "/"
                           THEN [r |-> "true", pos |-> p2 + 1]
                           ELSE comment_loop(text, end, p2)

\* consume_comment, called with the cursor on the "/".  r is "true", "false"
\* (Ok(false): the next byte is not "*"), or "eos".
consume_comment(text, end, pos) ==
    LET p1 == pos + 1
    IN  IF at_end(end, p1) THEN [r |-> "eos", pos |-> p1]
        ELSE IF text[p1 + 1] # "*" THEN [r |-> "false", pos |-> p1]
        ELSE comment_loop(text, end, p1 + 1)

\* quote_scan changed to take a backslash for an ordinary byte.
RECURSIVE quote_scan_noescape(_, _, _, _)
quote_scan_noescape(text, end, pos, quote) ==
    IF at_end(end, pos) THEN pos
    ELSE IF curr_char_raw(text, pos) = quote THEN pos + 1
    ELSE quote_scan_noescape(text, end, pos + 1, quote)

\* The inner loop of consume_parenthesized_content that skips a quoted
\* string; pos is after the opening quote.
RECURSIVE quote_scan(_, _, _, _)
quote_scan(text, end, pos, quote) ==
    IF at_end(end, pos) THEN pos
    ELSE LET c == curr_char_raw(text, pos)
             p1 == pos + 1
         IN  IF c = quote THEN p1
             ELSE IF c = "\\" /\ ~at_end(end, p1)
                  THEN quote_scan(text, end, p1 + 1, quote)
                  ELSE quote_scan(text, end, p1, quote)

\* The outer loop of consume_parenthesized_content: [pos, depth] at its exit.
RECURSIVE paren_scan(_, _, _, _)
paren_scan(text, end, pos, depth) ==
    IF at_end(end, pos) \/ depth <= 0 THEN [pos |-> pos, depth |-> depth]
    ELSE LET c == curr_char_raw(text, pos)
         IN  CASE c = "(" -> paren_scan(text, end, pos + 1, depth + 1)
               [] c = ")" -> paren_scan(text, end, pos + 1, depth - 1)
               [] c \in {"\"", "'"} ->
                    paren_scan(text, end, quote_scan(text, end, pos + 1, c), depth)
               [] OTHER -> paren_scan(text, end, pos + 1, depth)

\* consume_parenthesized_content changed to give up the open block when the
\* group is not closed.
consume_parenthesized_content_abandon(text, end, tk) ==
    LET start == tk.pos
        sc == paren_scan(text, end, start + 1, 1)
    IN  IF at_end(end, start) THEN Ret(tk, EndOfStreamError(start))
        ELSE IF curr_char_raw(text, start) # "("
        THEN Ret(tk, UnknownToken(start))
        ELSE IF sc.depth # 0
        THEN Ret([tk EXCEPT !.pos = sc.pos, !.state = "Rule",
                            !.nesting_stack = <<>>],
                 UnknownToken(sc.pos))
        ELSE Ret([tk EXCEPT !.pos = skip_spaces(text, end, sc.pos)],
                 Tok1("AtStr", start, sc.pos))

\* consume_parenthesized_content with the cursor on "(": the AtStr of the
\* region from the "(" through its matching ")", then skip_spaces.
consume_parenthesized_content(text, end, tk) ==
    LET start == tk.pos
        sc == paren_scan(text, end, start + 1, 1)
    IN  IF at_end(end, start) THEN Ret(tk, EndOfStreamError(start))
        ELSE IF curr_char_raw(text, start) # "("
        THEN Ret(tk, UnknownToken(start))
        ELSE IF sc.depth # 0
        THEN Ret([tk EXCEPT !.pos = sc.pos], UnknownToken(sc.pos))
        ELSE Ret([tk EXCEPT !.pos = skip_spaces(text, end, sc.pos)],
                 Tok1("AtStr", start, sc.pos))

\* lead_ident changed to report an empty identifier at the lead byte.
lead_ident_at_lead(text, end, tk, type, h) ==
    LET p1 == tk.pos + 1
        t1 == [tk EXCEPT !.after_selector = TRUE, !.has_at_rule = h, !.pos = p1]
        id == consume_ident(text, end, p1)
    IN  IF ~id.ok THEN Ret(t1, UnknownToken(tk.pos))
        ELSE Ret([t1 EXCEPT !.pos = id.pos], Tok1(type, p1, id.pos))

\* The `#`, `.` and `@` arms: set the flags, advance over the lead byte,
\* read the identifier and emit the token of the given type.
lead_ident(text, end, tk, type, h) ==
    LET p1 == tk.pos + 1
        t1 == [tk EXCEPT !.after_selector = TRUE, !.has_at_rule = h, !.pos = p1]
        id == consume_ident(text, end, p1)
    IN  IF ~id.ok THEN Ret(t1, UnknownToken(p1))
        ELSE Ret([t1 EXCEPT !.pos = id.pos], Tok1(type, p1, id.pos))

\* The `:` arm (the same statements in consume_rule and consume_declaration).
consume_pseudo(text, end, tk) ==
    LET p1 == tk.pos + 1
        t1 == [tk EXCEPT !.after_selector = TRUE, !.has_at_rule = FALSE, !.pos = p1]
    IN  IF at_end(end, p1) THEN Ret(t1, EndOfStreamError(p1))
        ELSE
        LET is_double_colon == text[p1 + 1] = ":"
            p2 == IF is_double_colon THEN p1 + 1 ELSE p1
            id == consume_ident(text, end, p2)
            e == id.pos
        IN  IF ~id.ok THEN Ret([t1 EXCEPT !.pos = p2], UnknownToken(p2))
            ELSE IF ~at_end(end, e) /\ text[e + 1] = "("
            THEN LET inner_len == length_to(text, end, e + 1, ")")
                 IN  IF inner_len < 0
                     THEN Ret([t1 EXCEPT !.pos = e + 1], EndOfStreamError(e + 1))
                     ELSE Ret([t1 EXCEPT !.pos = e + 1 + inner_len + 1],
                              TokPseudoArg(is_double_colon, p2, e,
                                           e + 1, e + 1 + inner_len))
            ELSE Ret([t1 EXCEPT !.pos = e], TokPseudo(is_double_colon, p2, e))

\* consume_universal changed to leave the cursor on the `*`.
consume_universal_stay(text, end, tk) ==
    Ret([tk EXCEPT !.after_selector = TRUE, !.has_at_rule = FALSE],
        Tok("UniversalSelector"))

\* The `*` arm.
consume_universal(text, end, tk) ==
    Ret([tk EXCEPT !.after_selector = TRUE, !.has_at_rule = FALSE,
                   !.pos = skip_spaces(text, end, tk.pos + 1)],
        Tok("UniversalSelector"))

\* consume_attribute changed to leave the whitespace after the `]` unread.
consume_attribute_nospace(text, end, tk) ==
    LET p1 == tk.pos + 1
        t1 == [tk EXCEPT !.after_selector = TRUE, !.has_at_rule = FALSE, !.pos = p1]
        len == length_to(text, end, p1, "]")
    IN  IF len < 0 THEN Ret(t1, EndOfStreamError(p1))
        ELSE Ret([t1 EXCEPT !.pos = p1 + len + 1],
                 Tok1("AttributeSelector", p1, p1 + len))

\* The `[` arm.
consume_attribute(text, end, tk) ==
    LET p1 == tk.pos + 1
        t1 == [tk EXCEPT !.after_selector = TRUE, !.has_at_rule = FALSE, !.pos = p1]
        len == length_to(text, end, p1, "]")
    IN  IF len < 0 THEN Ret(t1, EndOfStreamError(p1))
        ELSE Ret([t1 EXCEPT !.pos = skip_spaces(text, end, p1 + len + 1)],
                 Tok1("AttributeSelector", p1, p1 + len))

\* The `,` arm.
consume_comma(text, end, tk) ==
    Ret([tk EXCEPT !.after_selector = FALSE, !.has_at_rule = FALSE,
                   !.pos = skip_spaces(text, end, tk.pos + 1)],
        Tok("Comma"))

\* emit_combinator changed to leave the cursor on the combinator byte.
emit_combinator_stay(text, end, tk, c) ==
    Ret([tk EXCEPT !.after_selector = FALSE, !.has_at_rule = FALSE],
        TokComb(CASE c = ">" -> "GreaterThan" [] c = "+" -> "Plus" [] OTHER -> "Tilde"))

\* The statements of a `>`, `+` or `~` arm once the combinator is accepted.
emit_combinator(text, end, tk, c) ==
    Ret([tk EXCEPT !.after_selector = FALSE, !.has_at_rule = FALSE,
                   !.pos = skip_spaces(text, end, tk.pos + 1)],
        TokComb(CASE c = ">" -> "GreaterThan" [] c = "+" -> "Plus" [] OTHER -> "Tilde"))

(***************************************************************************)
(* parse_next, consume_rule and consume_declaration call each other.       *)
(***************************************************************************)
RECURSIVE parse_next(_, _, _)
RECURSIVE consume_rule(_, _, _)
RECURSIVE consume_declaration(_, _, _)

\* consume_slash changed to report the position of the "/" itself.
consume_slash_at_slash(text, end, tk) ==
    LET cm == consume_comment(text, end, tk.pos)
        t1 == [tk EXCEPT !.pos = cm.pos]
    IN  CASE cm.r = "true"  -> parse_next(text, end, t1)
          [] cm.r = "false" -> Ret(t1, UnknownToken(tk.pos))
          [] OTHER          -> Ret(t1, EndOfStreamError(cm.pos))

\* The `/` arm of both consume procedures, cursor on the "/".
consume_slash(text, end, tk) ==
    LET cm == consume_comment(text, end, tk.pos)
        t1 == [tk EXCEPT !.pos = cm.pos]
    IN  CASE cm.r = "true"  -> parse_next(text, end, t1)
          [] cm.r = "false" -> Ret(t1, UnknownToken(cm.pos))
          [] OTHER          -> Ret(t1, EndOfStreamError(cm.pos))

\* rule_ident changed to leave the cursor in front of the identifier.
rule_ident_stay(text, end, tk) ==
    LET id == consume_ident(text, end, tk.pos)
    IN  IF ~id.ok THEN Ret(tk, UnknownToken(tk.pos))
        ELSE Ret([tk EXCEPT !.after_selector = TRUE],
                 Tok1(IF tk.has_at_rule THEN "AtStr" ELSE "TypeSelector",
                      tk.pos, id.pos))

\* The tail of the `_` arm of consume_rule: read an identifier and emit
\* AtStr in an at-rule head, TypeSelector otherwise.
rule_ident(text, end, tk) ==
    LET id == consume_ident(text, end, tk.pos)
    IN  IF ~id.ok THEN Ret(tk, UnknownToken(tk.pos))
        ELSE Ret([tk EXCEPT !.pos = id.pos, !.after_selector = TRUE],
                 Tok1(IF tk.has_at_rule THEN "AtStr" ELSE "TypeSelector",
                      tk.pos, id.pos))

\* The `_` arm of consume_rule.
rule_other(text, end, tk) ==
    IF is_space(curr_char_raw(text, tk.pos))
    THEN LET t1 == [tk EXCEPT !.pos = skip_spaces(text, end, tk.pos)]
         IN  IF ~t1.after_selector THEN parse_next(text, end, t1)
             ELSE IF at_end(end, t1.pos) THEN Ret(t1, EndOfStreamError(t1.pos))
             ELSE IF text[t1.pos + 1] \in {"{", "/", ">", "+", "~", "*", "("}
             THEN parse_next(text, end, t1)
             ELSE LET t2 == [t1 EXCEPT !.after_selector = FALSE]
                  IN  IF ~t2.has_at_rule THEN Ret(t2, TokComb("Space"))
                      ELSE rule_ident(text, end, t2)
    ELSE rule_ident(text, end, tk)

consume_rule(text, end, tk) ==
    LET c == curr_char_raw(text, tk.pos)
    IN  CASE c = "@" -> lead_ident(text, end, tk, "AtRule", TRUE)
          [] c = "#" -> lead_ident(text, end, tk, "IdSelector", FALSE)
          [] c = "." -> lead_ident(text, end, tk, "ClassSelector", FALSE)
          [] c = "*" -> consume_universal(text, end, tk)
          [] c = ":" -> consume_pseudo(text, end, tk)
          [] c = "[" -> consume_attribute(text, end, tk)
          [] c = "," -> consume_comma(text, end, tk)
          [] c = "{" ->
                Ret([tk EXCEPT !.nesting_stack = Append(@, tk.has_at_rule),
                               !.after_selector = FALSE, !.has_at_rule = FALSE,
                               !.state = "Declaration", !.pos = @ + 1],
                    Tok("BlockStart"))
          [] c \in {">", "+", "~"} ->
                IF tk.after_selector THEN emit_combinator(text, end, tk, c)
                ELSE Ret(tk, UnknownToken(tk.pos))
          [] c = "/" -> consume_slash(text, end, tk)
          [] c = "(" /\ tk.has_at_rule ->
                LET pc == consume_parenthesized_content(text, end, tk)
                IN  IF pc.r.kind = "Ok"
                    THEN Ret([pc.t EXCEPT !.after_selector = TRUE], pc.r)
                    ELSE pc
          [] OTHER -> rule_other(text, end, tk)

\* pop_nesting changed to forget the pop.
pop_nesting_keep(stack) == stack

\* nesting_stack.pop(): the stack without its last entry; popping the empty
\* stack leaves it empty.
pop_nesting(stack) ==
    IF stack = <<>> THEN <<>> ELSE SubSeq(stack, 1, Len(stack) - 1)

\* mode_after_block_end changed to stay in Declaration whatever the stack.
mode_after_block_end_nested(state, stack) ==
    CASE state = "DeclarationRule" -> "Declaration"
      [] OTHER -> state

\* mode_after_block_end changed to stay in DeclarationRule after a `}`.
mode_after_block_end_sticky(state, stack) ==
    CASE state = "Declaration" -> IF stack = <<>> THEN "Rule" ELSE "Declaration"
      [] OTHER -> state

\* The mode after a `}`: state is the mode before it, stack the popped stack.
mode_after_block_end(state, stack) ==
    CASE state = "DeclarationRule" -> "Declaration"
      [] state = "Declaration" -> IF stack = <<>> THEN "Rule" ELSE "Declaration"
      [] OTHER -> state

\* The mode after a `{` met by consume_declaration.
mode_after_block_start(state) ==
    CASE state = "Rule" -> "Declaration"
      [] state = "Declaration" -> "DeclarationRule"
      [] OTHER -> state

\* decl_value_len changed to end a value at `;` only.
decl_value_len_semicolon(text, end, pos) == length_to(text, end, pos, ";")

\* The scan for the end of a declaration value: its length, -1 on error.
decl_value_len(text, end, pos) == length_to_either(text, end, pos, {";", "}"})

\* skip_semicolons changed to stop without an error at the end of the window.
RECURSIVE skip_semicolons_lenient(_, _, _)
skip_semicolons_lenient(text, end, pos) ==
    IF at_end(end, pos) THEN [ok |-> TRUE, pos |-> pos]
    ELSE IF text[pos + 1] = ";"
         THEN skip_semicolons_lenient(text, end, skip_spaces(text, end, pos + 1))
         ELSE [ok |-> TRUE, pos |-> pos]

\* The loop that consumes the `;` separators after a declaration value:
\* [ok, pos]; not ok when is_char_eq fails at the end of the window.
RECURSIVE skip_semicolons(_, _, _)
skip_semicolons(text, end, pos) ==
    IF at_end(end, pos) THEN [ok |-> FALSE, pos |-> pos]
    ELSE IF text[pos + 1] = ";"
         THEN skip_semicolons(text, end, skip_spaces(text, end, pos + 1))
         ELSE [ok |-> TRUE, pos |-> pos]

\* The offset after the last byte of [lo, hi) that is not a space, hi when
\* every byte of the region is a space (rposition finds nothing).
RECURSIVE trim_end(_, _, _, _)
trim_end(text, lo, hi, orig) ==
    IF hi <= lo THEN orig
    ELSE IF ~is_space(text[hi]) THEN hi
    ELSE trim_end(text, lo, hi - 1, orig)

\* An optional comment before the `{` / `:` test and before the value:
\* [r, pos] with r "go" (no comment, or one consumed), "false" or "eos".
optional_comment(text, end, pos) ==
    IF at_end(end, pos) THEN [r |-> "eos", pos |-> pos]
    ELSE IF text[pos + 1] # "/" THEN [r |-> "go", pos |-> pos]
    ELSE LET cm == consume_comment(text, end, pos)
         IN  [r |-> IF cm.r = "true" THEN "go" ELSE cm.r, pos |-> cm.pos]

\* The value part of a declaration, cursor after the `:`.
decl_value(text, end, tk, nlo, nhi) ==
    LET oc == optional_comment(text, end, skip_spaces(text, end, tk.pos))
        t1 == [tk EXCEPT !.pos = oc.pos]
        len == decl_value_len(text, end, oc.pos)
        vhi == trim_end(text, oc.pos, oc.pos + len, oc.pos + len)
        sm == skip_semicolons(text, end, skip_spaces(text, end, oc.pos + len))
    IN  CASE oc.r = "eos"   -> Ret(t1, EndOfStreamError(oc.pos))
          [] oc.r = "false" -> Ret(t1, UnknownToken(oc.pos))
          [] len < 0        -> Ret(t1, EndOfStreamError(oc.pos))
          [] len = 0        -> Ret(t1, UnknownToken(oc.pos))
          [] ~sm.ok         -> Ret([t1 EXCEPT !.pos = sm.pos], EndOfStreamError(sm.pos))
          [] OTHER          -> Ret([t1 EXCEPT !.pos = sm.pos],
                                   TokDecl(nlo, nhi, oc.pos, vhi))

\* The `_` arm of consume_declaration, cursor after the skipped spaces.
decl_other(text, end, tk) ==
    LET id == consume_ident(text, end, tk.pos)
        t1 == [tk EXCEPT !.pos = id.pos]
        oc == optional_comment(text, end, skip_spaces(text, end, id.pos))
        t2 == [tk EXCEPT !.pos = oc.pos]
    IN  CASE ~id.ok -> Ret(tk, UnknownToken(tk.pos))
          [] tk.has_at_rule ->
                Ret([t1 EXCEPT !.pos = skip_spaces(text, end, id.pos),
                               !.after_selector = TRUE],
                    Tok1("AtStr", tk.pos, id.pos))
          [] oc.r = "eos"   -> Ret(t2, EndOfStreamError(oc.pos))
          [] oc.r = "false" -> Ret(t2, UnknownToken(oc.pos))
          [] at_end(end, oc.pos) -> Ret(t2, EndOfStreamError(oc.pos))
          [] text[oc.pos + 1] # ":" ->
                Ret([t2 EXCEPT !.after_selector = TRUE],
                    Tok1("TypeSelector", tk.pos, id.pos))
          [] OTHER ->
                decl_value(text, end, [t2 EXCEPT !.pos = oc.pos + 1], tk.pos, id.pos)

consume_declaration(text, end, tk0) ==
    LET tk == [tk0 EXCEPT !.pos = skip_spaces(text, end, tk0.pos)]
        c == curr_char_raw(text, tk.pos)
    IN  CASE c = "PANIC" -> Ret(tk, Panic(tk.pos))
          [] c = "}" ->
                LET st == pop_nesting(tk.nesting_stack)
                IN  Ret([tk EXCEPT !.nesting_stack = st,
                                   !.state = mode_after_block_end(tk.state, st),
                                   !.has_at_rule = FALSE,
                                   !.pos = skip_spaces(text, end, tk.pos + 1)],
                        Tok("BlockEnd"))
          [] c = "{" ->
                Ret([tk EXCEPT !.nesting_stack = Append(@, tk.has_at_rule),
                               !.has_at_rule = FALSE,
                               !.state = mode_after_block_start(tk.state),
                               !.pos = skip_spaces(text, end, tk.pos + 1)],
                    Tok("BlockStart"))
          [] c = "@" ->
                LET li == lead_ident(text, end, tk, "AtRule", TRUE)
                IN  IF li.r.kind = "Ok"
                    THEN Ret([li.t EXCEPT !.pos = skip_spaces(text, end, @)], li.r)
                    ELSE li
          [] c = ":" -> consume_pseudo(text, end, tk)
          [] c = "." -> lead_ident(text, end, tk, "ClassSelector", FALSE)
          [] c = "#" -> lead_ident(text, end, tk, "IdSelector", FALSE)
          [] c = "*" -> consume_universal(text, end, tk)
          [] c = "[" -> consume_attribute(text, end, tk)
          [] c \in {">", "+", "~"} -> emit_combinator(text, end, tk, c)
          [] c = "," -> consume_comma(text, end, tk)
          [] c = "(" /\ tk.has_at_rule ->
                LET pc == consume_parenthesized_content(text, end, tk)
                IN  IF pc.r.kind = "Ok"
                    THEN Ret([pc.t EXCEPT !.after_selector = TRUE], pc.r)
                    ELSE pc
          [] c = "/" -> consume_slash(text, end, tk)
          [] OTHER -> decl_other(text, end, tk)

\* parse_next changed to read with consume_rule in mode Declaration too.
parse_next_rule_in_block(text, end, tk0) ==
    LET tk == IF tk0.at_start
              THEN [tk0 EXCEPT !.pos = skip_spaces(text, end, tk0.pos),
                               !.at_start = FALSE]
              ELSE tk0
    IN  IF at_end(end, tk.pos) THEN Ret(tk, Tok("EndOfStream"))
        ELSE IF tk.state # "DeclarationRule" THEN consume_rule(text, end, tk)
        ELSE consume_declaration(text, end, tk)

\* parse_next changed to read with consume_declaration in every mode.
parse_next_block_everywhere(text, end, tk0) ==
    LET tk == IF tk0.at_start
              THEN [tk0 EXCEPT !.pos = skip_spaces(text, end, tk0.pos),
                               !.at_start = FALSE]
              ELSE tk0
    IN  IF at_end(end, tk.pos) THEN Ret(tk, Tok("EndOfStream"))
        ELSE consume_declaration(text, end, tk)

\* parse_next changed to test for the end of the input in Rule mode only.
parse_next_rule_guard(text, end, tk0) ==
    LET tk == IF tk0.at_start
              THEN [tk0 EXCEPT !.pos = skip_spaces(text, end, tk0.pos),
                               !.at_start = FALSE]
              ELSE tk0
    IN  IF tk.state = "Rule"
        THEN IF at_end(end, tk.pos) THEN Ret(tk, Tok("EndOfStream"))
             ELSE consume_rule(text, end, tk)
        ELSE consume_declaration(text, end, tk)

\* parse_next changed to close one open block when it reports the end.
parse_next_closing(text, end, tk0) ==
    LET tk == IF tk0.at_start
              THEN [tk0 EXCEPT !.pos = skip_spaces(text, end, tk0.pos),
                               !.at_start = FALSE]
              ELSE tk0
    IN  IF at_end(end, tk.pos)
        THEN Ret([tk EXCEPT !.nesting_stack = pop_nesting(@)], Tok("EndOfStream"))
        ELSE IF tk.state = "Rule" THEN consume_rule(text, end, tk)
        ELSE consume_declaration(text, end, tk)

parse_next(text, end, tk0) ==
    LET tk == IF tk0.at_start
              THEN [tk0 EXCEPT !.pos = skip_spaces(text, end, tk0.pos),
                               !.at_start = FALSE]
              ELSE tk0
    IN  IF at_end(end, tk.pos) THEN Ret(tk, Tok("EndOfStream"))
        ELSE IF tk.state = "Rule" THEN consume_rule(text, end, tk)
        ELSE consume_declaration(text, end, tk)

(***************************************************************************)
(* The checked inputs: every byte string of at most MaxLen bytes over      *)
(* Alphabet, every phrase made of one of Heads followed by at most         *)
(* MaxChunks of Chunks, every at-rule head that opens a parenthesized      *)
(* group followed by at most MaxLen + 2 bytes over ParenAlphabet, and      *)
(* every `[` (at the top level and inside a block) followed by at most     *)
(* MaxLen bytes over AttrAlphabet.                                         *)
(***************************************************************************)
\* Stands for a byte >= 0x80 (part of a multi-byte UTF-8 character).
NonAscii == "<E5>"

Alphabet ==
    {"a", " ", "\n", "@", "#", ".", "*", ":", "[", "]", ",", "{", "}", ">",
     "+", "~", "/", "(", ")", "\"", "'", "\\", ";", "!", NonAscii}

Heads ==
    {<<>>, <<"a", "{">>, <<"a", "{", "{">>, <<"a", "{", "a", ":">>,
     <<"@", "a">>, <<"a", "{", "@", "a">>, <<":", "a", "(">>,
     <<"a", "{", "/">>, <<"a", "{", "{", "}", "a", ":">>,
     <<"a", "{", "{", "{", "}", "a", ":">>, <<"a", "{", "a", "}">>,
     <<"a", "{", ":", "a", " ">>, <<"a", ":">>,
     <<"a", "{", "}", "a", ":">>}

Chunks ==
    {<<"a">>, <<" ">>, <<"{">>, <<"}">>, <<":">>, <<";">>, <<",">>, <<">">>,
     <<"(">>, <<")">>, <<"/", "*", "*", "/">>}

RECURSIVE Strings(_)
Strings(n) ==
    IF n = 0 THEN {<<>>}
    ELSE LET S == Strings(n - 1)
         IN  S \cup {Append(s, c) : s \in S, c \in Alphabet}

\* The bytes after the `(` of a parenthesized group of an at-rule head.
ParenAlphabet == {"a", "(", ")", "\"", "'", "\\"}

ParenHeads == {<<"@", "a", "(">>, <<"a", "{", "@", "a", "(">>}

RECURSIVE ParenStrings(_)
ParenStrings(n) ==
    IF n = 0 THEN {<<>>}
    ELSE LET S == ParenStrings(n - 1)
         IN  S \cup {Append(s, c) : s \in S, c \in ParenAlphabet}

\* The bytes after the `[` of an attribute selector.
AttrAlphabet == {"a", "[", "]", " "}

AttrHeads == {<<"[">>, <<"a", "{", "[">>}

RECURSIVE AttrStrings(_)
AttrStrings(n) ==
    IF n = 0 THEN {<<>>}
    ELSE LET S == AttrStrings(n - 1)
         IN  S \cup {Append(s, c) : s \in S, c \in AttrAlphabet}

RECURSIVE Phrases(_)
Phrases(n) ==
    IF n = 0 THEN {<<>>}
    ELSE LET P == Phrases(n - 1)
         IN  P \cup {p \o c : p \in P, c \in Chunks}


(***************************************************************************)
(* The state: a tokenizer over a text, and what its caller has observed.   *)
(***************************************************************************)
VARIABLES
    text,       \* the input buffer
    start,      \* the start of the stream's window
    end,        \* the end of the stream's window
    tk,         \* the Tokenizer
    res,        \* the result of the last call of parse_next
    pre,        \* the Tokenizer as it was before the last call
    prevRes,    \* the result of the call before the last call
    lastTok,    \* the last token returned before the last call
    nStart,     \* number of BlockStart tokens returned so far
    nEnd,       \* number of BlockEnd tokens returned so far
    head,       \* types of the tokens returned for the rule head being read
    preHead,    \* head as it was before the last call
    erred,      \* a call before the last call has returned an error
    calls,      \* number of calls made, up to the first call that returned
                \* EndOfStream or an error
    text2,      \* the input buffer of a second Tokenizer, called in step
    tk2,        \* the second Tokenizer
    res2,       \* the result of the last call of the second Tokenizer
    erred2,     \* an earlier call of the second Tokenizer returned an error
    cut,        \* the region of text that text2 leaves out (<<0, 0>>: none)
    cutSeen     \* a call of the first Tokenizer had its lead at cut[1]

varsOne ==
    <<text, start, end, tk, res, pre, prevRes, lastTok, nStart, nEnd, head,
      preHead, erred, calls>>

varsTwo == <<text2, tk2, res2, erred2, cut, cutSeen>>

vars == <<varsOne, varsTwo>>

\* A rule head ends with the `{` that opens its block; the next head begins
\* after a BlockStart, a BlockEnd or a Declaration.
HeadAfter(h, r) ==
    CASE r.kind # "Ok" \/ r.type = "EndOfStream" -> h
      [] r.type \in {"BlockStart", "BlockEnd", "Declaration"} -> <<>>
      [] OTHER -> Append(h, r.type)

\* What a constructor leaves behind it: no call made yet.
Fresh ==
    /\ res = NoResult
    /\ pre = tk
    /\ prevRes = NoResult
    /\ lastTok = NoResult
    /\ nStart = 0
    /\ nEnd = 0
    /\ head = <<>>
    /\ preHead = <<>>
    /\ erred = FALSE
    /\ calls = 0
    /\ res2 = NoResult
    /\ erred2 = FALSE
    /\ cutSeen = FALSE

\* No second Tokenizer.
Alone ==
    /\ text2 = <<>>
    /\ tk2 = NewTokenizer(0)
    /\ cut = <<0, 0>>

\* Tokenizer::new(text), no call made yet.
Init ==
    /\ \/ text \in Strings(MaxLen)
       \/ \E h \in Heads, p \in Phrases(MaxChunks) : text = h \o p
       \/ \E h \in ParenHeads, p \in ParenStrings(MaxLen + 2) : text = h \o p
       \/ \E h \in AttrHeads, p \in AttrStrings(MaxLen) : text = h \o p
    /\ start = 0
    /\ end = Len(text)
    /\ tk = NewTokenizer(0)
    /\ Alone
    /\ Fresh

\* One call of parse_next by the consumer, and what the consumer observes.
Call ==
    /\ LET out == parse_next(text, end, tk)
       IN  /\ tk' = out.t
           /\ res' = out.r
           /\ nStart' = nStart + (IF out.r.type = "BlockStart" THEN 1 ELSE 0)
           /\ nEnd' = nEnd + (IF out.r.type = "BlockEnd" THEN 1 ELSE 0)
           /\ head' = HeadAfter(head, out.r)
    /\ preHead' = head
    /\ erred' = (erred \/ res.kind = "Err")
    /\ calls' = IF res.kind = "Err" \/ res.type = "EndOfStream"
                THEN calls ELSE calls + 1
    /\ pre' = tk
    /\ prevRes' = res
    /\ lastTok' = IF res.kind = "Ok" THEN res ELSE lastTok
    /\ UNCHANGED <<text, start, end>>

\* One call of parse_next by the consumer, who may go on after an error
\* but not after a panic.
ParseNext ==
    /\ res.kind # "Panic"
    /\ Call
    /\ UNCHANGED varsTwo

Next == ParseNext

Spec == Init /\ [][Next]_vars

(***************************************************************************)
(* Two tokenizers called in step: the first over text, the second over     *)
(* text2.  Each step is one call of parse_next on each.                    *)
(***************************************************************************)
ParsePair ==
    /\ res.kind # "Panic"
    /\ res2.kind # "Panic"
    /\ Call
    /\ LET out2 == parse_next(text2, Len(text2), tk2)
       IN  /\ tk2' = out2.t
           /\ res2' = out2.r
    /\ erred2' = (erred2 \/ res2.kind = "Err")
    /\ cutSeen' = (cutSeen \/ (cut[1] < cut[2] /\
                                skip_spaces(text, end, tk.pos) = cut[1]))
    /\ UNCHANGED <<text2, cut>>

NextPair == ParsePair

\* The comments put between the two parts of an input.
Comments == {<<"/", "*", "*", "/">>, <<"/", "*", "a", "*", "/">>}

\* t without the bytes of the region c.
Without(t, c) == SubSeq(t, 1, c[1]) \o SubSeq(t, c[2] + 1, Len(t))

\* Tokenizer::new(text) for a text with a comment in it, and
\* Tokenizer::new(text2) for the same text with that comment deleted.
CutInit ==
    /\ \E h \in Heads, p \in Phrases(MaxChunks - 1), c \in Comments,
          q \in Phrases(1) :
            /\ text = h \o p \o c \o q
            /\ cut = <<Len(h \o p), Len(h \o p) + Len(c)>>
    /\ start = 0
    /\ end = Len(text)
    /\ tk = NewTokenizer(0)
    /\ text2 = Without(text, cut)
    /\ tk2 = NewTokenizer(0)
    /\ Fresh

SpecCut == CutInit /\ [][NextPair]_vars

\* The bytes of the buffers that hold a window.
BoundAlphabet ==
    {"a", " ", "\n", "{", "}", ":", ";", "/", "*", "(", ")", "#"}

RECURSIVE Buffers(_)
Buffers(n) ==
    IF n = 0 THEN {<<>>}
    ELSE LET S == Buffers(n - 1)
         IN  S \cup {Append(b, c) : b \in S, c \in BoundAlphabet}

\* Tokenizer::new_bound(text, start, end) for a window of a buffer, and
\* Tokenizer::new(text2) for the bytes of that window alone.
BoundInit ==
    /\ text \in Buffers(MaxLen)
    /\ start \in 0..Len(text)
    /\ end \in start..Len(text)
    /\ tk = NewTokenizer(start)
    /\ text2 = SubSeq(text, start + 1, end)
    /\ tk2 = NewTokenizer(0)
    /\ cut = <<0, 0>>
    /\ Fresh

SpecBound == BoundInit /\ [][NextPair]_vars

(***************************************************************************)
(* Vocabulary of the properties.                                           *)
(***************************************************************************)
SelectorTypes ==
    {"TypeSelector", "IdSelector", "ClassSelector", "UniversalSelector",
     "AttributeSelector", "PseudoClass", "DoublePseudoClass"}

\* A call of parse_next has returned (a token or an error).
Returned == res.kind \in {"Ok", "Err"}

IsToken(r, type) == r.kind = "Ok" /\ r.type = type

IsSpaceCombinator(r) == IsToken(r, "Combinator") /\ r.comb = "Space"

Depth(t) == Len(t.nesting_stack)

\* The offset of the lead byte of the last call: the first byte at or after
\* the cursor that is not whitespace.
LeadPos == skip_spaces(text, end, pre.pos)

HasLead == LeadPos < end

Lead == text[LeadPos + 1]

(***************************************************************************)
(* C1: EndOfStream is absorbing.  When a call has returned EndOfStream,    *)
(* the next call returns EndOfStream too and leaves the cursor, the mode,  *)
(* the flags and the nesting stack as they were.                           *)
(***************************************************************************)
C1_EndOfStreamAbsorbing ==
    IsToken(prevRes, "EndOfStream") => (IsToken(res, "EndOfStream") /\ tk = pre)

\* A second EndOfStream, returned inside an unclosed nested block.
C1_Witness ==
    /\ IsToken(prevRes, "EndOfStream")
    /\ IsToken(res, "EndOfStream")
    /\ Depth(tk) >= 2

(***************************************************************************)
(* C2: position monotonicity.  No call (returning a token or an error)     *)
(* moves pos() backwards, and a call that returns a token other than       *)
(* EndOfStream leaves pos() strictly greater than before.                  *)
(***************************************************************************)
C2_PositionMonotonic ==
    /\ pre.pos <= tk.pos
    /\ (res.kind = "Ok" /\ res.type # "EndOfStream") => pre.pos < tk.pos

\* A combinator was returned, and before it an error was returned by a
\* call that had moved the cursor.
C2_Witness ==
    /\ IsToken(res, "Combinator")
    /\ pre.pos < tk.pos
    /\ prevRes.kind = "Err"
    /\ prevRes.at = pre.pos
    /\ pre.pos > 0

C4_ModeAfterBlock ==
    /\ IsToken(res, "BlockStart") => tk.state \in {"Declaration", "DeclarationRule"}
    /\ (IsToken(res, "BlockEnd") /\ tk.nesting_stack = <<>>) => tk.state = "Rule"

\* The BlockEnd that closes the outermost block of a nested pair.
C4_Witness ==
    /\ IsToken(res, "BlockEnd")
    /\ tk.nesting_stack = <<>>
    /\ nStart >= 2
    /\ pre.state = "Declaration"

(***************************************************************************)
(* C5: after a Combinator(Space) token the next call, when it returns a    *)
(* token, returns a selector token (TypeSelector, IdSelector,              *)
(* ClassSelector, UniversalSelector, AttributeSelector, PseudoClass or     *)
(* DoublePseudoClass).  Stated for runs in which no call has failed.       *)
(***************************************************************************)
C5_SpaceThenSelector ==
    (IsSpaceCombinator(prevRes) /\ res.kind = "Ok" /\ ~erred) =>
        res.type \in SelectorTypes

(***************************************************************************)
(* C6: in Rule mode a `>`, `+` or `~` lead that is not preceded by a       *)
(* selector (at the start of the input, after Comma, after another         *)
(* Combinator, after BlockEnd) yields UnknownToken at the byte of that     *)
(* lead.  Stated for runs in which no earlier call has failed.             *)
(***************************************************************************)
C6_CombinatorNeedsSelector ==
    ( /\ Returned
      /\ pre.state = "Rule"
      /\ HasLead
      /\ Lead \in {">", "+", "~"}
      /\ ~erred
      /\ \/ lastTok.kind = "None"
         \/ lastTok.type \in {"Comma", "Combinator", "BlockEnd"} )
    => res = UnknownToken(LeadPos)

(***************************************************************************)
(* C7: a `#`, `.`, `@`, `:` or `::` lead that is not immediately followed  *)
(* by an identifier byte yields UnknownToken at the byte right after the   *)
(* punctuation, and no token.                                              *)
(***************************************************************************)
\* The last call dispatched on the lead byte (whitespace did not become a
\* descendant combinator or an at-rule word first).
Dispatched ==
    \/ pre.state # "Rule"
    \/ pre.at_start
    \/ LeadPos = pre.pos
    \/ ~pre.after_selector

IsDoubleColon ==
    Lead = ":" /\ LeadPos + 1 < end /\ text[LeadPos + 2] = ":"

\* The offset right after the punctuation of the lead.
PunctEnd == LeadPos + (IF IsDoubleColon THEN 2 ELSE 1)

C7_Case ==
    /\ Returned
    /\ HasLead
    /\ Dispatched
    /\ Lead \in {"#", ".", "@", ":"}
    /\ PunctEnd >= end \/ ~is_ident_char(text[PunctEnd + 1])

Trimmed(sl) ==
    sl[1] < sl[2] => (~is_space(text[sl[1] + 1]) /\ ~is_space(text[sl[2]]))

C8_DeclarationTrimmed ==
    IsToken(res, "Declaration") => (Trimmed(res.a) /\ Trimmed(res.b))

(***************************************************************************)
(* C9: the value of every Declaration is non-empty, contains neither `;`   *)
(* nor `}`, starts after the `:` and runs up to the first `;` or `}` (only *)
(* whitespace lies between its end and that terminator); a declaration     *)
(* whose value span has zero length yields UnknownToken at the terminator. *)
(***************************************************************************)
Terminators == {";", "}"}

\* The lead is a property name, then `:`, then directly a terminator
\* (whitespace aside): the offset of that terminator, -1 when not the case.
EmptyValueAt ==
    LET e == ident_end(text, end, LeadPos)
        c == skip_spaces(text, end, e)
        v == IF c < end THEN skip_spaces(text, end, c + 1) ELSE end
    IN  IF /\ pre.state # "Rule"
           /\ ~pre.has_at_rule
           /\ e > LeadPos
           /\ c < end
           /\ text[c + 1] = ":"
           /\ v < end
           /\ text[v + 1] \in Terminators
        THEN v ELSE -1

InAtRuleHead ==
    /\ preHead # <<>>
    /\ preHead[1] = "AtRule"
    /\ \A i \in 2..Len(preHead) : preHead[i] \in {"AtStr", "Comma"}
    /\ ~erred

C10_AtRuleHead ==
    (InAtRuleHead /\ res.kind = "Ok" /\ res.type # "EndOfStream" /\ HasLead) =>
        /\ res.type \notin {"TypeSelector", "Declaration"}
        /\ is_ident_char(Lead) => res.type = "AtStr"
        /\ Lead = "(" => /\ res.type = "AtStr"
                         /\ res.a[1] = LeadPos
                         /\ text[res.a[2]] = ")"

(***************************************************************************)
(* C11: the value of `:name(arg)` and `::name(arg)` is the raw input after *)
(* the `(` up to the first unbalanced `)`: nested parentheses stay inside  *)
(* the value, and the call consumes through the matching `)`.  Stated for  *)
(* arguments that have such a `)`.                                         *)
(***************************************************************************)
\* The offset of the first `)` at or after pos that closes no `(` met since
\* pos (depth counts those still open), -1 when the input ends first.
RECURSIVE FirstUnbalancedClose(_, _)
FirstUnbalancedClose(pos, depth) ==
    IF pos >= end THEN -1
    ELSE CASE text[pos + 1] = "(" -> FirstUnbalancedClose(pos + 1, depth + 1)
           [] text[pos + 1] = ")" ->
                IF depth = 0 THEN pos ELSE FirstUnbalancedClose(pos + 1, depth - 1)
           [] OTHER -> FirstUnbalancedClose(pos + 1, depth)

IsPseudoWithArg(r) ==
    r.kind = "Ok" /\ r.type \in {"PseudoClass", "DoublePseudoClass"} /\ r.some

C11_PseudoArgBalanced ==
    (IsPseudoWithArg(res) /\ FirstUnbalancedClose(res.b[1], 0) >= 0) =>
        /\ text[res.b[1]] = "("
        /\ res.b[2] = FirstUnbalancedClose(res.b[1], 0)
        /\ tk.pos = res.b[2] + 1

(***************************************************************************)
(* C12: block comments are transparent between tokens.  When a complete    *)
(* comment that is the lead of a call is deleted from the input, the calls *)
(* return the same tokens (same types, same payload contents) as before.   *)
(* Stated for comments whose deletion does not join two identifier bytes,  *)
(* for runs without an error, at the calls where both runs return a token. *)
(***************************************************************************)
SameToken(r, r2) ==
    /\ r.type = r2.type
    /\ r.comb = r2.comb
    /\ r.some = r2.some
    /\ Slice(text, r.a) = Slice(text2, r2.a)
    /\ Slice(text, r.b) = Slice(text2, r2.b)

CutJoinsIdentifiers ==
    /\ cut[1] > 0
    /\ cut[2] < Len(text)
    /\ is_ident_char(text[cut[1]])
    /\ is_ident_char(text[cut[2] + 1])

C12_CommentTransparent ==
    ( /\ cutSeen
      /\ ~CutJoinsIdentifiers
      /\ ~erred
      /\ ~erred2
      /\ res.kind = "Ok"
      /\ res2.kind = "Ok" )
    => SameToken(res, res2)

(***************************************************************************)
(* C13: trailing whitespace is ignored.  A call made when the remaining    *)
(* input is only ASCII whitespace (after a selector, after a BlockStart,   *)
(* after a BlockEnd, or as the whole input) returns EndOfStream, not       *)
(* another token and not an error.  Stated for the calls that return, in   *)
(* runs without an earlier error.                                          *)
(***************************************************************************)
OnlyWhitespaceLeft == pre.pos < end /\ skip_spaces(text, end, pre.pos) >= end

C13_TrailingWhitespace ==
    (Returned /\ ~erred /\ OnlyWhitespaceLeft) =>
        IsToken(res, "EndOfStream")

(***************************************************************************)
(* C14: no call reads the byte under the cursor with curr_char_raw while   *)
(* the cursor is at the end of the input: no call panics or reads out of   *)
(* bounds, for every input and every mode.                                 *)
(***************************************************************************)
C14_NoRawReadAtEnd == res.kind # "Panic"

(***************************************************************************)
(* C15: inside a block and outside an at-rule head, a nested rule whose    *)
(* head starts with a type selector is not tokenized as a Declaration: the *)
(* identifier is returned as TypeSelector, also when a pseudo-class        *)
(* follows it directly as in `a:hover {`.  Stated for heads of the forms   *)
(* `name {` and `name:name {`, for the calls that return a token, in runs  *)
(* without an earlier error.                                               *)
(***************************************************************************)
\* The end of the identifier that is the lead of the last call.
LeadIdentEnd == ident_end(text, end, LeadPos)

\* pos is the offset of a `{`, whitespace before it aside.
BlockOpensAt(pos) ==
    LET b == skip_spaces(text, end, pos)
    IN  b < end /\ text[b + 1] = "{"

\* The lead of the last call is `name {` or `name:name {`.
NestedRuleLead ==
    /\ pre.state # "Rule"
    /\ ~pre.has_at_rule
    /\ HasLead
    /\ is_ident_char(Lead)
    /\ \/ BlockOpensAt(LeadIdentEnd)
       \/ /\ LeadIdentEnd < end
          /\ text[LeadIdentEnd + 1] = ":"
          /\ ident_end(text, end, LeadIdentEnd + 1) > LeadIdentEnd + 1
          /\ BlockOpensAt(ident_end(text, end, LeadIdentEnd + 1))

C15_NestedTypeSelector ==
    (res.kind = "Ok" /\ ~erred /\ NestedRuleLead) =>
        res = Tok1("TypeSelector", LeadPos, LeadIdentEnd)

(***************************************************************************)
(* C16: new_bound(buf, s, e) and new(buf[s..e]) return the same results    *)
(* call by call: the same tokens with the same payload contents, errors of *)
(* the same kind at the same call, and the same pos() relative to the      *)
(* start of the window.                                                    *)
(***************************************************************************)
SameResult(r, r2) == r.kind = r2.kind /\ SameToken(r, r2)

C16_BoundEquivalence ==
    /\ SameResult(res, res2)
    /\ tk.pos - start = tk2.pos

\* C16 for the calls made while neither tokenizer has its cursor at the end
\* of its window after the whitespace at the cursor.
C16_AwayFromEnd ==
    (skip_spaces(text, end, pre.pos) < end) =>
        /\ SameResult(res, res2)
        /\ tk.pos - start = tk2.pos

(***************************************************************************)
(* C17: a `(` lead met while has_at_rule is set returns the AtStr that is  *)
(* the slice from that `(` through its matching `)`, where parentheses     *)
(* inside single- or double-quoted strings (with backslash escapes) do not *)
(* count; when the input ends before the group is closed (inside an        *)
(* unterminated string included) it returns UnknownToken.  A `(` lead met  *)
(* while has_at_rule is not set is not accepted.                           *)
(***************************************************************************)
\* The offset after the `)` that closes the group entered depth times, read
\* from offset i on; q is the quote of the string being read ("": none).
\* -1 when the input ends first.
RECURSIVE MatchingClose(_, _, _)
MatchingClose(i, depth, q) ==
    IF i >= end THEN -1
    ELSE LET c == text[i + 1]
         IN  IF q # ""
             THEN CASE c = q    -> MatchingClose(i + 1, depth, "")
                    [] c = "\\" -> MatchingClose(i + 2, depth, q)
                    [] OTHER    -> MatchingClose(i + 1, depth, q)
             ELSE CASE c = "(" -> MatchingClose(i + 1, depth + 1, "")
                    [] c = ")" -> IF depth = 1 THEN i + 1
                                  ELSE MatchingClose(i + 1, depth - 1, "")
                    [] c \in {"\"", "'"} -> MatchingClose(i + 1, depth, c)
                    [] OTHER -> MatchingClose(i + 1, depth, "")

ParenLead == Returned /\ HasLead /\ Lead = "("

GroupEnd == MatchingClose(LeadPos + 1, 1, "")

C17_ParenthesizedAtStr ==
    /\ (ParenLead /\ pre.has_at_rule /\ GroupEnd >= 0) =>
          res = Tok1("AtStr", LeadPos, GroupEnd)
    /\ (ParenLead /\ pre.has_at_rule /\ GroupEnd < 0) =>
          (res.kind = "Err" /\ res.type = "UnknownToken")
    /\ (ParenLead /\ ~pre.has_at_rule) => res = UnknownToken(LeadPos)

\* A group closed after a quoted string that holds an escaped quote.
C17_Witness ==
    /\ ParenLead
    /\ pre.has_at_rule
    /\ IsToken(res, "AtStr")
    /\ res.a[2] - res.a[1] >= 6
    /\ \E i \in (res.a[1] + 2)..(res.a[2] - 2) :
          text[i] = "\\" /\ text[i + 1] \in {"\"", "'"}

(***************************************************************************)
(* C18: every identifier payload (of TypeSelector, IdSelector,             *)
(* ClassSelector, AtRule, the name of PseudoClass and DoublePseudoClass,   *)
(* the property of Declaration, and an AtStr that is not a parenthesized   *)
(* group) is non-empty, is made of ASCII letters, digits, `-` and `_`      *)
(* only, and starts after the `#`, `.`, `@` or `:` punctuation.            *)
(***************************************************************************)
IdentPayloadTypes ==
    {"TypeSelector", "IdSelector", "ClassSelector", "AtRule", "PseudoClass",
     "DoublePseudoClass", "Declaration", "AtStr"}

IsParenGroup(r) == r.a[1] < end /\ text[r.a[1] + 1] = "("

HasIdentPayload(r) ==
    /\ r.kind = "Ok"
    /\ r.type \in IdentPayloadTypes
    /\ ~(r.type = "AtStr" /\ IsParenGroup(r))

\* The punctuation in front of the identifier of a token of the given type.
Punctuation(type) ==
    CASE type = "IdSelector" -> "#"
      [] type = "ClassSelector" -> "."
      [] type = "AtRule" -> "@"
      [] type \in {"PseudoClass", "DoublePseudoClass"} -> ":"
      [] OTHER -> ""

C18_IdentifierPayload ==
    HasIdentPayload(res) =>
        /\ res.a[1] < res.a[2]
        /\ \A i \in (res.a[1] + 1)..res.a[2] : is_ident_char(text[i])
        /\ Punctuation(res.type) # "" =>
              (res.a[1] > 0 /\ text[res.a[1]] = Punctuation(res.type))

\* An IdSelector whose identifier stops at a non-ASCII byte.
C18_Witness ==
    /\ IsToken(res, "IdSelector")
    /\ res.a[2] < end
    /\ text[res.a[2] + 1] = NonAscii

(***************************************************************************)
(* C19: every payload slice of a returned token lies inside the window     *)
(* [start, end] and inside the bytes consumed by the call that returned it *)
(* (between pos() before and pos() after the call); the value of a token   *)
(* follows its name, and the payloads of successive tokens follow each     *)
(* other in input order without overlap.                                   *)
(***************************************************************************)
HasPayload(r) ==
    r.kind = "Ok" /\ r.type \in IdentPayloadTypes \cup {"AttributeSelector"}

HasSecondPayload(r) == r.kind = "Ok" /\ (r.type = "Declaration" \/ r.some)

\* The end of the last payload slice of a token.
PayloadEnd(r) == IF HasSecondPayload(r) THEN r.b[2] ELSE r.a[2]

InsideCall(sl) ==
    /\ start <= pre.pos
    /\ pre.pos <= sl[1]
    /\ sl[1] <= sl[2]
    /\ sl[2] <= tk.pos
    /\ sl[2] <= end

C19_PayloadInsideCall ==
    /\ HasPayload(res) => InsideCall(res.a)
    /\ HasSecondPayload(res) => (InsideCall(res.b) /\ res.a[2] <= res.b[1])
    /\ (HasPayload(res) /\ HasPayload(lastTok)) => PayloadEnd(lastTok) <= res.a[1]

\* A Declaration: two payloads, the second one ending before the cursor.
C19_Witness ==
    /\ IsToken(res, "Declaration")
    /\ pre.pos <= res.a[1]
    /\ res.a[2] < res.b[1]
    /\ res.b[2] < tk.pos

(***************************************************************************)
(* C20: a call returns EndOfStream exactly when the cursor is at the end   *)
(* of the input when classification starts (on the first call, after the   *)
(* leading whitespace), whatever the mode, the flags and the nesting       *)
(* depth: such a call returns EndOfStream and no other token or error and  *)
(* changes neither the mode nor the stack, and EndOfStream is never        *)
(* returned while unread bytes remain.                                     *)
(***************************************************************************)
\* The cursor when the last call started to classify.
ClassifyPos ==
    IF pre.at_start THEN skip_spaces(text, end, pre.pos) ELSE pre.pos

AtEndAtStart == ClassifyPos >= end

RECURSIVE FirstCloseBracket(_)
FirstCloseBracket(pos) ==
    IF pos >= end THEN -1
    ELSE IF text[pos + 1] = "]" THEN pos
    ELSE FirstCloseBracket(pos + 1)

\* The offset of the first byte at or after pos that is not whitespace.
RECURSIVE AfterWhitespace(_)
AfterWhitespace(pos) ==
    IF pos < end /\ text[pos + 1] \in SpaceChars
    THEN AfterWhitespace(pos + 1)
    ELSE pos

C21_AttributePayload ==
    /\ IsToken(res, "AttributeSelector") =>
          /\ res.a[1] > 0
          /\ text[res.a[1]] = "["
          /\ res.a[2] = FirstCloseBracket(res.a[1])
          /\ \A i \in (res.a[1] + 1)..res.a[2] : text[i] # "]"
          /\ tk.pos = AfterWhitespace(res.a[2] + 1)
    /\ (Returned /\ HasLead /\ Dispatched /\ Lead = "[" /\
        FirstCloseBracket(LeadPos + 1) >= 0) =>
          res = Tok1("AttributeSelector", LeadPos + 1,
                     FirstCloseBracket(LeadPos + 1))

\* Inside a block: a payload that holds a `[`, with whitespace after the `]`.
C21_Witness ==
    /\ IsToken(res, "AttributeSelector")
    /\ pre.state # "Rule"
    /\ \E i \in (res.a[1] + 1)..res.a[2] : text[i] = "["
    /\ tk.pos > res.a[2] + 1

(***************************************************************************)
(* C22: the mode follows the nesting depth.  After every call the mode is  *)
(* Rule if and only if the nesting stack is empty, and mode                *)
(* DeclarationRule implies a depth of at least 2; so after a nested block  *)
(* has closed, what follows in the parent block is read in declaration     *)
(* context: a `name: value` there is returned as Declaration, at every     *)
(* depth.                                                                  *)
(***************************************************************************)
\* The offset of the first `;` or `}` at or after pos, -1 when there is none.
RECURSIVE FirstTerminator(_)
FirstTerminator(pos) ==
    IF pos >= end THEN -1
    ELSE IF text[pos + 1] \in {";", "}"} THEN pos
    ELSE FirstTerminator(pos + 1)

\* The offset of the first byte at or after pos that is neither whitespace
\* nor a `;`.
RECURSIVE AfterSeparators(_)
AfterSeparators(pos) ==
    IF pos < end /\ text[pos + 1] \in SpaceChars \cup {";"}
    THEN AfterSeparators(pos + 1)
    ELSE pos

\* The lead of the last call is `name : value` closed by `;` or `}`, with
\* more input after its separators.
DeclarationLead ==
    LET n == ident_end(text, end, LeadPos)
        c == AfterWhitespace(n)
        v == AfterWhitespace(c + 1)
    IN  /\ HasLead
        /\ n > LeadPos
        /\ c < end
        /\ text[c + 1] = ":"
        /\ v < end
        /\ text[v + 1] \notin {";", "}", "/"}
        /\ FirstTerminator(v) >= 0
        /\ AfterSeparators(FirstTerminator(v)) < end

C22_ModeFollowsDepth ==
    /\ (tk.state = "Rule") <=> (tk.nesting_stack = <<>>)
    /\ tk.state = "DeclarationRule" => Depth(tk) >= 2
    /\ (Returned /\ IsToken(prevRes, "BlockEnd") /\ Depth(pre) >= 1 /\
        DeclarationLead) =>
          /\ pre.state = "Declaration"
          /\ IsToken(res, "Declaration")
          /\ res.a = <<LeadPos, ident_end(text, end, LeadPos)>>

\* A Declaration returned after a nested block has closed, two blocks deep.
C22_Witness ==
    /\ IsToken(res, "Declaration")
    /\ IsToken(prevRes, "BlockEnd")
    /\ Depth(pre) = 2
    /\ nStart = 3

(***************************************************************************)
(* C23: after_selector is reset by comma, block-start and combinator:      *)
(* right after a call that returns Comma, BlockStart or a Combinator, in   *)
(* Rule mode or inside a block, after_selector is false.  Stated for runs  *)
(* without an earlier error.                                               *)
(***************************************************************************)
C23_AfterSelectorReset ==
    ( /\ res.kind = "Ok"
      /\ res.type \in {"Comma", "BlockStart", "Combinator"}
      /\ ~erred )
    => ~tk.after_selector

(***************************************************************************)
(* C24: in Rule mode outside an at-rule head, when the last returned token *)
(* completes a compound selector (TypeSelector, IdSelector, ClassSelector, *)
(* AttributeSelector, PseudoClass or DoublePseudoClass) and the input goes *)
(* on with whitespace and then the lead byte of a type, id, class,         *)
(* attribute or pseudo selector, the next token is Combinator(Space),      *)
(* returned once before that selector.  Stated for the calls that return a *)
(* token, in runs without an error.                                        *)
(***************************************************************************)
CompoundEnders ==
    {"TypeSelector", "IdSelector", "ClassSelector", "AttributeSelector",
     "PseudoClass", "DoublePseudoClass"}

SelectorLeads == IdentChars \cup {"#", ".", "[", ":"}

\* The offset after the last byte of the input text of a selector token.
TokenEnd(r) ==
    CASE r.type = "AttributeSelector" -> r.a[2] + 1
      [] r.some -> r.b[2] + 1
      [] OTHER -> r.a[2]

\* Whitespace and then a selector lead follow the token r.
SelectorAfterWhitespace(r) ==
    /\ TokenEnd(r) < end
    /\ is_space(text[TokenEnd(r) + 1])
    /\ AfterWhitespace(TokenEnd(r)) < end
    /\ text[AfterWhitespace(TokenEnd(r)) + 1] \in SelectorLeads

C24_DescendantCombinator ==
    /\ ( /\ res.kind = "Ok"
         /\ ~erred
         /\ pre.state = "Rule"
         /\ ~pre.has_at_rule
         /\ prevRes.kind = "Ok"
         /\ prevRes.type \in CompoundEnders
         /\ SelectorAfterWhitespace(prevRes) )
       => res = TokComb("Space")
    /\ IsSpaceCombinator(prevRes) => ~IsSpaceCombinator(res)

(***************************************************************************)
(* C25: every nesting-stack entry records whether its block was introduced *)
(* by an `@`-rule: the value pushed at a `{` is true if and only if the    *)
(* rule head that this `{` ends began with an AtRule token, for every head *)
(* (those with a comma, a pseudo-class or another selector token after the *)
(* at-rule name included).  Stated for heads that hold no combinator and   *)
(* do not end with a comma, in runs without an error.                      *)
(***************************************************************************)
\* The rule head read before the last call began with an AtRule token.
HeadBeganWithAtRule == preHead # <<>> /\ preHead[1] = "AtRule"

\* The rule head read before the last call is a list of selectors or words.
PlainHead ==
    /\ \A i \in 1..Len(preHead) : preHead[i] # "Combinator"
    /\ preHead # <<>> => preHead[Len(preHead)] # "Comma"

C25_StackRecordsAtRule ==
    (IsToken(res, "BlockStart") /\ ~erred /\ PlainHead) =>
        tk.nesting_stack[Len(tk.nesting_stack)] = HeadBeganWithAtRule

(***************************************************************************)
(* C26: the comment reader reports a comment as consumed only when a whole *)
(* `/* ... */` was consumed, ending at the first `*/` after the opening    *)
(* `/*` (no nesting, a backslash does not escape); an opening `/*` that is *)
(* not closed before the end of the input (`/*` as the last two bytes      *)
(* included) is not reported as consumed and the call does not end in a    *)
(* token: it returns an error.  Stated for the calls whose lead is `/*`,   *)
(* in runs without an earlier error.                                       *)
(***************************************************************************)
\* The offset after the first `*/` that starts at or after pos, -1 when
\* there is none.
RECURSIVE FirstCommentClose(_)
FirstCommentClose(pos) ==
    IF pos + 1 >= end THEN -1
    ELSE IF text[pos + 1] = "*" /\ text[pos + 2] = "/" THEN pos + 2
    ELSE FirstCommentClose(pos + 1)

CommentLead ==
    /\ Returned
    /\ ~erred
    /\ HasLead
    /\ Lead = "/"
    /\ LeadPos + 1 < end
    /\ text[LeadPos + 2] = "*"

C26_CommentReader ==
    CommentLead =>
        LET close == FirstCommentClose(LeadPos + 2)
            cm == consume_comment(text, end, LeadPos)
        IN  /\ cm.r = "true" <=> close >= 0
            /\ close >= 0 => (cm.pos = close /\ tk.pos >= close)
            /\ close < 0 => res.kind = "Err"

(***************************************************************************)
(* C27: a `/` lead that is followed by a byte other than `*` yields        *)
(* UnknownToken in both modes, at the byte right after the `/`, and no     *)
(* token.                                                                  *)
(***************************************************************************)
SlashNotComment ==
    /\ Returned
    /\ HasLead
    /\ Lead = "/"
    /\ LeadPos + 1 < end
    /\ text[LeadPos + 2] # "*"

C27_SlashNotComment == SlashNotComment => res = UnknownToken(LeadPos + 1)

\* Inside a block, on the first line: the column reported is the one of the
\* byte after the `/`.
C27_Witness ==
    /\ SlashNotComment
    /\ pre.state = "Declaration"
    /\ res = UnknownToken(LeadPos + 1)
    /\ gen_error_pos(text, res.at) = [line |-> 1, col |-> LeadPos + 2]

(***************************************************************************)
(* C28: a lead byte that is neither a recognized punctuation lead nor an   *)
(* identifier byte (a quote, `)`, `;`, a `}` in Rule mode, `(` while       *)
(* has_at_rule is not set) yields UnknownToken at that byte itself (after  *)
(* the whitespace skipped before it), in Rule mode and inside a block.     *)
(* Stated for runs without an earlier error.                               *)
(***************************************************************************)
\* The punctuation leads of the mode and flags of tokenizer t.
PunctuationLeads(t) ==
    {"@", "#", ".", "*", ":", "[", ",", "{", ">", "+", "~", "/"}
        \cup (IF t.state = "Rule" THEN {} ELSE {"}"})
        \cup (IF t.has_at_rule THEN {"("} ELSE {})

UnrecognizedLead ==
    /\ Returned
    /\ ~erred
    /\ HasLead
    /\ Lead \notin PunctuationLeads(pre)
    /\ ~is_ident_char(Lead)

C28_UnrecognizedLead == UnrecognizedLead => res = UnknownToken(LeadPos)

\* C28 for the calls that dispatch on the lead byte.
C28_WhenDispatched ==
    (UnrecognizedLead /\ Dispatched) => res = UnknownToken(LeadPos)

(***************************************************************************)
(* C29: when a stream primitive signals the end of the stream inside a     *)
(* call because the input ends in the middle of a construct (after `:`,    *)
(* inside `[...]`, inside a pseudo-class argument, inside a declaration    *)
(* value with no `;` or `}`, after a trailing `;`), the error returned to  *)
(* the caller is UnknownToken at the current position.                     *)
(***************************************************************************)
\* The offset of the first `)` at or after pos, -1 when there is none.
RECURSIVE FirstCloseParen(_)
FirstCloseParen(pos) ==
    IF pos >= end THEN -1
    ELSE IF text[pos + 1] = ")" THEN pos
    ELSE FirstCloseParen(pos + 1)

\* The input ends right after the `:` that is the lead.
EndsAfterColon == Dispatched /\ Lead = ":" /\ LeadPos + 1 >= end

\* The lead is a `[` that no `]` follows.
EndsInAttribute ==
    Dispatched /\ Lead = "[" /\ FirstCloseBracket(LeadPos + 1) < 0

\* The lead is `:name(` or `::name(` that no `)` follows.
EndsInPseudoArgument ==
    LET e == ident_end(text, end, PunctEnd)
    IN  /\ Dispatched
        /\ Lead = ":"
        /\ e > PunctEnd
        /\ e < end
        /\ text[e + 1] = "("
        /\ FirstCloseParen(e + 1) < 0

\* Inside a block the lead is `name : value` that no `;` or `}` follows.
EndsInValue ==
    LET n == ident_end(text, end, LeadPos)
        c == AfterWhitespace(n)
        v == AfterWhitespace(c + 1)
    IN  /\ pre.state # "Rule"
        /\ ~pre.has_at_rule
        /\ n > LeadPos
        /\ c < end
        /\ text[c + 1] = ":"
        /\ v < end
        /\ text[v + 1] # "/"
        /\ FirstTerminator(v) < 0

\* Inside a block the lead is `name : value ;` and only separators follow.
EndsAfterSemicolon ==
    LET n == ident_end(text, end, LeadPos)
        c == AfterWhitespace(n)
        v == AfterWhitespace(c + 1)
    IN  /\ pre.state # "Rule"
        /\ ~pre.has_at_rule
        /\ n > LeadPos
        /\ c < end
        /\ text[c + 1] = ":"
        /\ v < end
        /\ text[v + 1] \notin {";", "}", "/"}
        /\ FirstTerminator(v) >= 0
        /\ text[FirstTerminator(v) + 1] = ";"
        /\ AfterSeparators(FirstTerminator(v)) >= end

EndsMidConstruct ==
    /\ Returned
    /\ HasLead
    /\ \/ EndsAfterColon
       \/ EndsInAttribute
       \/ EndsInPseudoArgument
       \/ EndsInValue
       \/ EndsAfterSemicolon

\* The claim as stated.
C29_EndSurfacesAsUnknownToken ==
    EndsMidConstruct => res = UnknownToken(tk.pos)

\* C29 as amended: the error returned is the end-of-stream error of the
\* stream primitive, handed on unchanged, and not UnknownToken.
C29_EndPropagatesUnchanged ==
    EndsMidConstruct =>
        (res.kind = "Err" /\ res.type = "UnexpectedEndOfStream")

\* A declaration whose `;` is the last byte of the input, inside a block.
C29_Witness ==
    /\ Returned
    /\ EndsAfterSemicolon
    /\ text[end] = ";"
    /\ res = EndOfStreamError(end)

(***************************************************************************)
(* C30: a call that returns an error leaves the mode and the nesting stack *)
(* exactly as they were before the call (only the cursor and the flags     *)
(* after_selector and has_at_rule may have changed).                       *)
(***************************************************************************)
C30_ErrorKeepsModeAndStack ==
    res.kind = "Err" =>
        /\ tk.state = pre.state
        /\ tk.nesting_stack = pre.nesting_stack

\* An error returned two blocks deep, by a call that has moved the cursor
\* and changed a flag.
C30_Witness ==
    /\ res.kind = "Err"
    /\ pre.state = "DeclarationRule"
    /\ Depth(pre) = 2
    /\ tk.pos > pre.pos
    /\ tk.has_at_rule # pre.has_at_rule

(***************************************************************************)
(* C31: over any sequence of calls, sequences in which the caller goes on  *)
(* after an error included, every returned AtStr token is immediately      *)
(* preceded, among the tokens returned, by an AtRule token or by another   *)
(* AtStr token.                                                            *)
(***************************************************************************)
C31_AtStrAfterAtRule ==
    IsToken(res, "AtStr") =>
        (lastTok.kind = "Ok" /\ lastTok.type \in {"AtRule", "AtStr"})

\* C31 for the sequences of calls in which no call has returned an error.
C31_WithoutError == ~erred => C31_AtStrAfterAtRule

(***************************************************************************)
(* C32: Combinator(Space) is returned only when the token returned right   *)
(* before it is a selector token (TypeSelector, IdSelector, ClassSelector, *)
(* AttributeSelector, PseudoClass, DoublePseudoClass or                    *)
(* UniversalSelector); it is never the first token and never directly      *)
(* follows BlockStart, BlockEnd, Comma, a Combinator, AtRule or AtStr.     *)
(* Stated for the sequences of calls without an error.                     *)
(***************************************************************************)
C32_SpaceAfterSelector ==
    (IsSpaceCombinator(res) /\ ~erred) =>
        (lastTok.kind = "Ok" /\ lastTok.type \in SelectorTypes)

(***************************************************************************)
(* C33: while the nesting depth is at least 1 (mode Declaration or         *)
(* DeclarationRule) no call returns Combinator(Space): the whitespace      *)
(* between two selectors of a nested rule head is skipped without a token. *)
(***************************************************************************)
\* The last call was made inside a block, after a selector token that is
\* followed by whitespace and the lead of another selector.
NestedHeadGap ==
    /\ Depth(pre) >= 1
    /\ prevRes.kind = "Ok"
    /\ prevRes.type \in CompoundEnders
    /\ SelectorAfterWhitespace(prevRes)

C33_NoSpaceCombinatorInBlock ==
    /\ IsSpaceCombinator(res) => (Depth(pre) = 0 /\ pre.state = "Rule")
    /\ (NestedHeadGap /\ res.kind = "Ok") =>
          /\ ~IsToken(res, "Combinator")
          /\ tk.pos > AfterWhitespace(TokenEnd(prevRes))

\* Inside a block: a pseudo-class, whitespace, and the next pseudo-class
\* returned by the call that skipped the whitespace.
C33_Witness ==
    /\ NestedHeadGap
    /\ IsToken(prevRes, "PseudoClass")
    /\ IsToken(res, "PseudoClass")
    /\ pre.pos < LeadPos
    /\ res.a[1] = LeadPos + 1

(***************************************************************************)
(* C34: Declaration tokens are returned only inside a block: every call    *)
(* that returns a Declaration starts and ends with a nesting depth of at   *)
(* least 1, so no Declaration is returned before the first BlockStart, nor *)
(* between the BlockEnd that brings the depth back to 0 and the next       *)
(* BlockStart.                                                             *)
(***************************************************************************)
C34_DeclarationInsideBlock ==
    IsToken(res, "Declaration") =>
        /\ Depth(pre) >= 1
        /\ Depth(tk) >= 1
        /\ pre.state # "Rule"
        /\ nStart >= 1
        /\ nStart - nEnd >= 1

\* A Declaration returned at depth 1 after an inner block has been closed.
C34_Witness ==
    /\ IsToken(res, "Declaration")
    /\ Depth(tk) = 1
    /\ nEnd >= 1
    /\ nStart = nEnd + 1

(***************************************************************************)
(* C35: every call ends on every finite input, because every re-dispatch   *)
(* inside a call and every loop iteration comes after the cursor has moved *)
(* on by at least one byte; so a consumer that calls until the first       *)
(* EndOfStream or error stops after at most (input length + 1) calls.      *)
(***************************************************************************)
\* The consumer has stopped: the last call returned EndOfStream or an error
\* (or did not return).
Stopped == res.kind \in {"Err", "Panic"} \/ IsToken(res, "EndOfStream")

C35_CallsBounded ==
    /\ calls <= (end - start) + 1
    /\ ~Stopped => calls <= tk.pos - start
    /\ (res.kind = "Ok" /\ ~IsToken(res, "EndOfStream")) => tk.pos > pre.pos

\* The bound is met: one token for each byte, then EndOfStream.
C35_Witness ==
    /\ IsToken(res, "EndOfStream")
    /\ ~IsToken(prevRes, "EndOfStream")
    /\ end - start >= 3
    /\ calls = (end - start) + 1

====
